---- MODULE Spec2Model ----
(***************************************************************************)
(* Model of src/app.py: the Streamlit dashboard that fetches quarterly     *)
(* statements (fetch_stock_data), derives growth figures                   *)
(* (calculate_growth_metrics) and asks Gemini for a narrative              *)
(* (generate_analysis).                                                    *)
(*                                                                         *)
(* Numbers are exact rationals <<n, d>> in lowest terms with d > 0; the    *)
(* IEEE specials the pandas/numpy arithmetic produces are <<1, 0>> (+inf), *)
(* <<-1, 0>> (-inf) and <<0, 0>> (NaN).  Floating-point rounding error and *)
(* the sign of zero are not modelled; the delivered cells are finite       *)
(* numbers (no NaN cells).                                                 *)
(***************************************************************************)
EXTENDS Integers, Sequences, FiniteSets, TLC

VARIABLES
    platform,           \* C library behind datetime.strftime
    upstream,           \* what yf.Ticker(symbol) delivers: info, quarterly_financials
    pc,                 \* position of the running script / of the caller
    financial_data,     \* first value returned by fetch_stock_data (line 265)
    company_name,       \* second value returned by fetch_stock_data (line 265)
    growth_df,          \* value returned by calculate_growth_metrics (line 286)
    session_state,      \* st.session_state: api_key, financial_data, company_name
    widgets,            \* widget values of the current run: api_key, symbol, the two buttons
    page,               \* what the current run has put on the page
    trigger,            \* the user event that started the current run
    fetchCalls,         \* calls of fetch_stock_data since the last Analyze click
    narrativeCalls      \* calls of the Gemini client since the last Analyze click

vars == <<platform, upstream, pc, financial_data, company_name, growth_df,
          session_state, widgets, page, trigger, fetchCalls, narrativeCalls>>

-----------------------------------------------------------------------------
(* Bounds of the model *)

MaxCols == 11        \* most columns a delivered statement has
MaxShift == 1        \* how far the revenue row is rotated against the other rows
MaxCalls == 3        \* fetch_stock_data calls followed after one Analyze click

(* Program constants *)

Crore == 10000000    \* divisor converting to crores
QuarterLimit == 10   \* columns[:10], values[:10]
DefaultLen == 10     \* [0] * 10

-----------------------------------------------------------------------------
(* float arithmetic as numpy / pandas perform it *)

Sign(n) == IF n > 0 THEN 1 ELSE IF n < 0 THEN -1 ELSE 0

AbsInt(n) == IF n < 0 THEN -n ELSE n

RECURSIVE GCD(_, _)
GCD(a, b) == IF b = 0 THEN a ELSE GCD(b, a % b)

Rat(n, d) ==
    IF d = 0 THEN <<Sign(n), 0>>
    ELSE LET g == GCD(AbsInt(n), AbsInt(d))
             s == Sign(d)
         IN  <<(s * n) \div g, (s * d) \div g>>

NaN == <<0, 0>>
Inf == <<1, 0>>
NegInf == <<-1, 0>>
Zero == <<0, 1>>
One == <<1, 1>>
Hundred == <<100, 1>>

FromInt(n) == <<n, 1>>

IsNaN(x) == x = NaN
IsFinite(x) == x[2] # 0
IsZero(x) == x[2] # 0 /\ x[1] = 0

Neg(x) == <<-x[1], x[2]>>

FAdd(x, y) ==
    IF IsNaN(x) \/ IsNaN(y) THEN NaN
    ELSE IF ~IsFinite(x) THEN (IF ~IsFinite(y) /\ y # x THEN NaN ELSE x)
    ELSE IF ~IsFinite(y) THEN y
    ELSE LET g == GCD(x[2], y[2])
             l == (x[2] \div g) * y[2]
         IN  Rat(x[1] * (l \div x[2]) + y[1] * (l \div y[2]), l)

FSub(x, y) == FAdd(x, Neg(y))

FMul(x, y) ==
    IF IsNaN(x) \/ IsNaN(y) THEN NaN
    ELSE IF ~IsFinite(x) \/ ~IsFinite(y)
         THEN (IF IsZero(x) \/ IsZero(y) THEN NaN
               ELSE <<Sign(x[1]) * Sign(y[1]), 0>>)
    ELSE LET g1 == GCD(AbsInt(x[1]), y[2])
             g2 == GCD(AbsInt(y[1]), x[2])
         IN  Rat((x[1] \div g1) * (y[1] \div g2), (x[2] \div g2) * (y[2] \div g1))

FDiv(x, y) ==
    IF IsNaN(x) \/ IsNaN(y) THEN NaN
    ELSE IF ~IsFinite(y) THEN (IF ~IsFinite(x) THEN NaN ELSE Zero)
    ELSE IF ~IsFinite(x) THEN (IF y[1] < 0 THEN Neg(x) ELSE x)
    ELSE IF IsZero(y) THEN <<Sign(x[1]), 0>>
    ELSE FMul(x, <<Sign(y[1]) * y[2], AbsInt(y[1])>>)

\* numpy.round(x, 2): to the nearest hundredth, ties to the even hundredth
Round2(x) ==
    IF ~IsFinite(x) THEN x
    ELSE LET t == x[1] * 100
             q == t \div x[2]
             r == t - q * x[2]
             h == IF 2 * r < x[2] THEN q
                  ELSE IF 2 * r > x[2] THEN q + 1
                  ELSE IF q % 2 = 0 THEN q ELSE q + 1
         IN  Rat(h, 100)

-----------------------------------------------------------------------------
(* sequences *)

Min(a, b) == IF a < b THEN a ELSE b

Head_n(s, n) == [i \in 1..Min(n, Len(s)) |-> s[i]]

Reversed(s) == [i \in 1..Len(s) |-> s[Len(s) + 1 - i]]

Repeat(v, n) == [i \in 1..n |-> v]

\* elementwise array op scalar
DivScalar(s, k) == [i \in 1..Len(s) |-> FDiv(s[i], k)]

-----------------------------------------------------------------------------
(* what the Yahoo Finance client delivers *)

RowNames == {"Total Revenue", "Operating Income", "Total Operating Expenses",
             "Net Income", "Basic EPS", "Gross Profit"}

FieldNames == {"Sales", "Operating Profit", "OPM%", "Net Profit", "EPS"}

\* raw cell values, newest column first, repeated every four columns
RowCycle ==
    [r \in RowNames |->
        CASE r = "Total Revenue"            -> <<1200000000, 1500000000, 1000000000, 0>>
          [] r = "Operating Income"         -> <<108000000, 187500000, 100000000, 50000000>>
          [] r = "Total Operating Expenses" -> <<900000000, 1400000000, 1000000000, 30000000>>
          [] r = "Net Income"               -> <<200000000, -100000000, 0, 125000000>>
          [] r = "Basic EPS"                -> <<12, 15, 0, -3>>
          [] OTHER                          -> <<700000000, 800000000, 600000000, 0>>]

Cell(r, c, shift) ==
    LET k == IF r = "Total Revenue" THEN c - 1 + shift ELSE c - 1
    IN  RowCycle[r][(k % 4) + 1]

\* period-end date of the c-th column; the newest column is 2024-12
ColDate(c) ==
    LET q == 8099 - (c - 1)
    IN  [year |-> q \div 4, month |-> 3 * ((q % 4) + 1)]

\* stock.quarterly_financials: index = row labels, columns = period-end dates
Statement(n, rows, shift) ==
    [columns |-> [c \in 1..n |-> ColDate(c)],
     index   |-> rows,
     data    |-> [r \in rows |-> [c \in 1..n |-> Cell(r, c, shift)]]]

Statements ==
    {Statement(n, rows, sh) : n \in 0..MaxCols, rows \in SUBSET RowNames, sh \in 0..MaxShift}

\* stock.info: each key may be missing; sharesOutstanding is whatever number is delivered
Infos ==
    {[longName |-> "Reliance Industries Limited"], [x \in {} |-> 0]}
    \cup {[longName |-> "Reliance Industries Limited", sharesOutstanding |-> s] :
            s \in {0, 50000000, -50000000}}
    \cup {[sharesOutstanding |-> 50000000]}

\* the client answers with data, or every access to it throws (network, unknown symbol)
Unreachable ==
    [raises |-> TRUE, info |-> [x \in {} |-> 0], quarterly_financials |-> Statement(0, {}, 0)]

Tickers ==
    [raises : {FALSE}, info : Infos, quarterly_financials : Statements] \cup {Unreachable}

\* unknown directives are copied ("glibc") or rejected with ValueError ("msvcrt")
Platforms == {"glibc", "msvcrt"}

-----------------------------------------------------------------------------
(* pandas helpers *)

None == [none |-> TRUE, index |-> <<>>, columns |-> [f \in {} |-> <<>>]]

\* DataFrame.empty: some axis has length 0
empty(frame) == Len(frame.columns) = 0 \/ frame.index = {}

\* financials.loc[row, quarters].values[:10]
loc_values(financials, row, quarters) ==
    Head_n([c \in 1..Len(quarters) |-> FromInt(financials.data[row][c])], QuarterLimit)

\* pd.DataFrame(dict, index=...) raises ValueError unless every column is as long as the index
DataFrameRaises(data, index) == \E f \in DOMAIN data : Len(data[f]) # Len(index)

DataFrame(data, index) == [none |-> FALSE, index |-> index, columns |-> data]

\* df.iloc[::-1]
iloc_reversed(df) ==
    [none |-> FALSE,
     index |-> Reversed(df.index),
     columns |-> [f \in DOMAIN df.columns |-> Reversed(df.columns[f])]]

\* q.strftime('%Y-Q%q'): %q is no strftime directive
strftimeRaises(plat) == plat = "msvcrt"

strftime(q, plat) == [year |-> q.year, rest |-> "-Q%q"]

dict_get(d, key, default) == IF key \in DOMAIN d THEN d[key] ELSE default

-----------------------------------------------------------------------------
(* fetch_stock_data *)

\* faulty variant: Sales defaulted like the other fields when the row is missing
SalesLookup_DefaultZero(financials, quarters) ==
    IF "Total Revenue" \in financials.index
    THEN [found |-> TRUE,
          values |-> DivScalar(loc_values(financials, "Total Revenue", quarters), FromInt(Crore))]
    ELSE [found |-> TRUE, values |-> Repeat(Zero, DefaultLen)]

SalesLookup(financials, quarters) ==
    IF "Total Revenue" \in financials.index
    THEN [found |-> TRUE,
          values |-> DivScalar(loc_values(financials, "Total Revenue", quarters), FromInt(Crore))]
    ELSE [found |-> FALSE, values |-> <<>>]

\* faulty variant: revenue minus expenses preferred over Operating Income
OperatingProfitColumn_ExpensesFirst(financials, quarters) ==
    IF "Total Revenue" \in financials.index
       /\ "Total Operating Expenses" \in financials.index
    THEN LET revenue == loc_values(financials, "Total Revenue", quarters)
             opex == loc_values(financials, "Total Operating Expenses", quarters)
         IN  DivScalar([i \in 1..Len(revenue) |-> FSub(revenue[i], opex[i])],
                       FromInt(Crore))
    ELSE IF "Operating Income" \in financials.index
         THEN DivScalar(loc_values(financials, "Operating Income", quarters), FromInt(Crore))
         ELSE Repeat(Zero, DefaultLen)

OperatingProfitColumn(financials, quarters) ==
    IF "Operating Income" \in financials.index
    THEN DivScalar(loc_values(financials, "Operating Income", quarters), FromInt(Crore))
    ELSE IF "Total Revenue" \in financials.index
            /\ "Total Operating Expenses" \in financials.index
         THEN LET revenue == loc_values(financials, "Total Revenue", quarters)
                  opex == loc_values(financials, "Total Operating Expenses", quarters)
              IN  DivScalar([i \in 1..Len(revenue) |-> FSub(revenue[i], opex[i])],
                            FromInt(Crore))
         ELSE Repeat(Zero, DefaultLen)

\* faulty variant: no test for Sales = 0
OPMColumn_Unguarded(operating_profit, sales) ==
    [i \in 1..Min(Len(operating_profit), Len(sales)) |->
        FMul(FDiv(operating_profit[i], sales[i]), Hundred)]

\* zip() stops at the shorter of the two lists
OPMColumn(operating_profit, sales) ==
    [i \in 1..Min(Len(operating_profit), Len(sales)) |->
        IF ~IsZero(sales[i])
        THEN FMul(FDiv(operating_profit[i], sales[i]), Hundred)
        ELSE Zero]

NetProfitColumn(financials, quarters) ==
    IF "Net Income" \in financials.index
    THEN DivScalar(loc_values(financials, "Net Income", quarters), FromInt(Crore))
    ELSE Repeat(Zero, DefaultLen)

\* `if shares_outstanding`: the key is there and its value is not 0
SharesTruthy(info) ==
    "sharesOutstanding" \in DOMAIN info /\ info["sharesOutstanding"] # 0

EPSColumn(financials, quarters, info, net_profit) ==
    IF "Basic EPS" \in financials.index
    THEN loc_values(financials, "Basic EPS", quarters)
    ELSE IF SharesTruthy(info)
         THEN [i \in 1..Len(net_profit) |->
                  FDiv(FMul(net_profit[i], FromInt(Crore)),
                       FromInt(info["sharesOutstanding"]))]
         ELSE Repeat(Zero, DefaultLen)

NoDataMessage == "No quarterly financial data available for this stock."
NoSalesMessage == "Sales data not available for this stock."
FetchErrorMessage == "Error fetching data: "

fetch_stock_data(symbol, stock, plat) ==
    IF stock.raises THEN [df |-> None, second |-> FetchErrorMessage]
    ELSE
    LET info == stock.info
        name == dict_get(info, "longName", symbol)
        financials == stock.quarterly_financials
    IN  IF empty(financials) THEN [df |-> None, second |-> NoDataMessage]
        ELSE
        LET quarters == Head_n(financials.columns, QuarterLimit)
            sales == SalesLookup(financials, quarters)
        IN  IF ~sales.found THEN [df |-> None, second |-> NoSalesMessage]
            ELSE
            LET operating_profit == OperatingProfitColumn(financials, quarters)
                opm == OPMColumn(operating_profit, sales.values)
                net_profit == NetProfitColumn(financials, quarters)
                eps == EPSColumn(financials, quarters, info, net_profit)
                data == [f \in FieldNames |->
                            CASE f = "Sales" -> sales.values
                              [] f = "Operating Profit" -> operating_profit
                              [] f = "OPM%" -> opm
                              [] f = "Net Profit" -> net_profit
                              [] OTHER -> eps]
                quarter_names == [i \in 1..Len(quarters) |-> strftime(quarters[i], plat)]
            IN  IF strftimeRaises(plat) \/ DataFrameRaises(data, quarter_names)
                THEN [df |-> None, second |-> FetchErrorMessage]
                ELSE [df |-> iloc_reversed(DataFrame(data, quarter_names)), second |-> name]

-----------------------------------------------------------------------------
(* calculate_growth_metrics *)

\* Series.shift(1)
shift1(s) == [i \in 1..Len(s) |-> IF i = 1 THEN NaN ELSE s[i - 1]]

\* faulty variant: growth from a zero base reported as 0
pct_change_ZeroBase(s) ==
    [i \in 1..Len(s) |->
        IF i = 1 THEN NaN
        ELSE IF IsZero(s[i - 1]) THEN Zero
        ELSE FSub(FDiv(s[i], s[i - 1]), One)]

\* Series.pct_change(): s / s.shift(1) - 1
pct_change(s) ==
    LET prev == shift1(s)
    IN  [i \in 1..Len(s) |-> FSub(FDiv(s[i], prev[i]), One)]

\* Series.diff(): s - s.shift(1)
diff(s) ==
    LET prev == shift1(s)
    IN  [i \in 1..Len(s) |-> FSub(s[i], prev[i])]

GrowthName(column) ==
    CASE column = "Sales" -> "Sales QoQ Growth"
      [] column = "Operating Profit" -> "Operating Profit QoQ Growth"
      [] column = "OPM%" -> "OPM% Change"
      [] column = "Net Profit" -> "Net Profit QoQ Growth"
      [] OTHER -> "EPS QoQ Growth"

GrowthNames == {GrowthName(c) : c \in FieldNames}

ColumnOf(name) == CHOOSE c \in FieldNames : GrowthName(c) = name

\* faulty variant: OPM% treated like the other columns
GrowthColumn_AllPercent(column, series) ==
    [i \in 1..Len(series) |-> FMul(pct_change(series)[i], Hundred)]

\* body of the loop over financial_data.columns
GrowthColumn(column, series) ==
    IF column # "OPM%"
    THEN [i \in 1..Len(series) |-> FMul(pct_change(series)[i], Hundred)]
    ELSE diff(series)

calculate_growth_metrics(df) ==
    LET growth_data == [g \in GrowthNames |-> GrowthColumn(ColumnOf(g), df.columns[ColumnOf(g)])]
    IN  [none |-> FALSE,
         index |-> df.index,
         columns |-> [g \in GrowthNames |->
                        [i \in 1..Len(growth_data[g]) |-> Round2(growth_data[g][i])]]]

-----------------------------------------------------------------------------
(* generate_analysis *)

NoKeyMessage == "Please enter your Gemini API key in the sidebar to generate analysis."
AnalysisErrorMessage == "Error generating analysis: "
ResponseText == "response.text"

\* faulty variant: the client's exception is not caught
generate_analysis_Uncaught(name, data, api_key, clientRaises) ==
    IF api_key = "" THEN [raised |-> FALSE, text |-> NoKeyMessage]
    ELSE IF clientRaises THEN [raised |-> TRUE, text |-> ""]
    ELSE [raised |-> FALSE, text |-> ResponseText]

\* clientRaises: genai.configure / generate_content / response.text throw
generate_analysis(name, data, api_key, clientRaises) ==
    IF api_key = "" THEN [raised |-> FALSE, text |-> NoKeyMessage]
    ELSE IF clientRaises THEN [raised |-> FALSE, text |-> AnalysisErrorMessage]
    ELSE [raised |-> FALSE, text |-> ResponseText]

-----------------------------------------------------------------------------
(* state shared by the two specifications *)

DefaultSymbol == "RELIANCE.NS"

BlankPage ==
    [message |-> "", table |-> None, growth |-> None, fig |-> "",
     button |-> FALSE, analysis |-> "", exception |-> FALSE]

NoWidgets ==
    [api_key |-> "", symbol |-> DefaultSymbol, analyze_btn |-> FALSE, generate_btn |-> FALSE]

NoSession == [k \in {} |-> ""]

Start(tickers, at) ==
    /\ platform \in Platforms
    /\ upstream \in tickers
    /\ pc = at
    /\ financial_data = None
    /\ company_name = ""
    /\ growth_df = None
    /\ session_state = NoSession
    /\ widgets = NoWidgets
    /\ page = BlankPage
    /\ trigger = "none"
    /\ fetchCalls = 0
    /\ narrativeCalls = 0

-----------------------------------------------------------------------------
(* Spec: the two pure functions applied to every delivered ticker *)

Init == Start(Tickers, "call_fetch")

CallFetch ==
    /\ pc = "call_fetch"
    /\ LET r == fetch_stock_data(DefaultSymbol, upstream, platform)
       IN  /\ financial_data' = r.df
           /\ company_name' = r.second
           /\ pc' = IF r.df.none THEN "done" ELSE "call_growth"
    /\ UNCHANGED <<platform, upstream, growth_df, session_state, widgets, page,
                   trigger, fetchCalls, narrativeCalls>>

CallGrowth ==
    /\ pc = "call_growth"
    /\ growth_df' = calculate_growth_metrics(financial_data)
    /\ pc' = "done"
    /\ UNCHANGED <<platform, upstream, financial_data, company_name, session_state,
                   widgets, page, trigger, fetchCalls, narrativeCalls>>

Next == CallFetch \/ CallGrowth

Spec == Init /\ [][Next]_vars

-----------------------------------------------------------------------------
(* SessionSpec: one browser session; every user event reruns the script *)

SessionStatements ==
    {Statement(n, rows, 0) :
        n \in {0, 3, QuarterLimit},
        rows \in {RowNames, RowNames \ {"Net Income"}, RowNames \ {"Total Revenue"}}}

SessionTickers ==
    [raises : {FALSE},
     info : {[longName |-> "Reliance Industries Limited", sharesOutstanding |-> 50000000],
             [x \in {} |-> 0]},
     quarterly_financials : SessionStatements]

Symbols == {"", DefaultSymbol}

ApiKeys == {"", "key"}

SessionInit == Start(SessionTickers, "new")

\* the browser opens the page: first run of the script
OpenPage ==
    /\ pc = "new"
    /\ pc' = "top"
    /\ trigger' = "open"
    /\ UNCHANGED <<platform, upstream, financial_data, company_name, growth_df,
                   session_state, widgets, page, fetchCalls, narrativeCalls>>

\* "Analyze Stock" is clicked: st.button returns True in the rerun it starts
ClickAnalyze ==
    /\ pc = "idle"
    /\ widgets' = [widgets EXCEPT !.analyze_btn = TRUE]
    /\ trigger' = "analyze"
    /\ fetchCalls' = 0
    /\ narrativeCalls' = 0
    /\ pc' = "top"
    /\ UNCHANGED <<platform, upstream, financial_data, company_name, growth_df,
                   session_state, page>>

\* "Generate Analysis" can be clicked once the last run has drawn it
ClickGenerate ==
    /\ pc = "idle"
    /\ page.button
    /\ fetchCalls < MaxCalls
    /\ widgets' = [widgets EXCEPT !.generate_btn = TRUE]
    /\ trigger' = "generate"
    /\ pc' = "top"
    /\ UNCHANGED <<platform, upstream, financial_data, company_name, growth_df,
                   session_state, page, fetchCalls, narrativeCalls>>

EditSymbol ==
    /\ pc = "idle"
    /\ fetchCalls < MaxCalls
    /\ \E s \in Symbols \ {widgets.symbol} :
          widgets' = [widgets EXCEPT !.symbol = s]
    /\ trigger' = "symbol"
    /\ pc' = "top"
    /\ UNCHANGED <<platform, upstream, financial_data, company_name, growth_df,
                   session_state, page, fetchCalls, narrativeCalls>>

EditApiKey ==
    /\ pc = "idle"
    /\ fetchCalls < MaxCalls
    /\ \E k \in ApiKeys \ {widgets.api_key} :
          widgets' = [widgets EXCEPT !.api_key = k]
    /\ trigger' = "api_key"
    /\ pc' = "top"
    /\ UNCHANGED <<platform, upstream, financial_data, company_name, growth_df,
                   session_state, page, fetchCalls, narrativeCalls>>

\* the script has ended: the buttons read False again until clicked
Released(w) == [w EXCEPT !.analyze_btn = FALSE, !.generate_btn = FALSE]

\* lines 26-32
SessionDefaults(ss) ==
    [k \in {"api_key", "financial_data", "company_name"} |->
        IF k \in DOMAIN ss THEN ss[k]
        ELSE IF k = "financial_data" THEN None ELSE ""]

\* lines 37-40
SidebarKey(ss, api_key) ==
    IF api_key # "" THEN [ss EXCEPT !["api_key"] = api_key] ELSE ss

\* lines 13-48 and 254-263, 304-305: everything before the fetch
ScriptTop ==
    /\ pc = "top"
    /\ LET ss == SidebarKey(SessionDefaults(session_state), widgets.api_key)
       IN  /\ session_state' = ss
           /\ IF widgets.analyze_btn \/ ~ss["financial_data"].none
              THEN IF widgets.symbol # ""
                   THEN /\ page' = BlankPage
                        /\ pc' = "fetch"
                        /\ widgets' = widgets
                   ELSE /\ page' = [BlankPage EXCEPT !.message = "Please enter a stock symbol."]
                        /\ pc' = "idle"
                        /\ widgets' = Released(widgets)
              ELSE /\ page' = BlankPage
                   /\ pc' = "idle"
                   /\ widgets' = Released(widgets)
    /\ UNCHANGED <<platform, upstream, financial_data, company_name, growth_df,
                   trigger, fetchCalls, narrativeCalls>>

\* lines 264-265; the client may fail on any call
RunFetch ==
    /\ pc = "fetch"
    /\ \E down \in BOOLEAN :
          LET stock == IF down THEN Unreachable ELSE upstream
              r == fetch_stock_data(widgets.symbol, stock, platform)
          IN  /\ financial_data' = r.df
              /\ company_name' = r.second
    /\ fetchCalls' = fetchCalls + 1
    /\ pc' = "display"
    /\ UNCHANGED <<platform, upstream, growth_df, session_state, widgets, page,
                   trigger, narrativeCalls>>

\* lines 267-295 and 302-303
RunDisplay ==
    /\ pc = "display"
    /\ IF ~financial_data.none
       THEN /\ session_state' = [session_state EXCEPT !["financial_data"] = financial_data,
                                                      !["company_name"] = company_name]
            /\ growth_df' = calculate_growth_metrics(financial_data)
            /\ page' = [page EXCEPT !.message = "Financial data retrieved",
                                    !.table = financial_data,
                                    !.growth = growth_df',
                                    !.fig = company_name,
                                    !.button = TRUE]
            /\ pc' = "narrative"
            /\ widgets' = widgets
       ELSE /\ page' = [page EXCEPT !.message = company_name]
            /\ pc' = "idle"
            /\ widgets' = Released(widgets)
            /\ UNCHANGED <<session_state, growth_df>>
    /\ UNCHANGED <<platform, upstream, financial_data, company_name, trigger,
                   fetchCalls, narrativeCalls>>

\* lines 296-300; an exception leaving the script ends the run with a traceback
RunNarrative ==
    /\ pc = "narrative"
    /\ IF widgets.generate_btn
       THEN \E clientRaises \in BOOLEAN :
               LET analysis == generate_analysis(company_name, financial_data,
                                                 session_state["api_key"], clientRaises)
               IN  /\ narrativeCalls' =
                          IF session_state["api_key"] # "" THEN narrativeCalls + 1
                          ELSE narrativeCalls
                   /\ IF analysis.raised
                      THEN page' = [BlankPage EXCEPT !.exception = TRUE]
                      ELSE page' = [page EXCEPT !.analysis = analysis.text]
       ELSE UNCHANGED <<page, narrativeCalls>>
    /\ pc' = "idle"
    /\ widgets' = Released(widgets)
    /\ UNCHANGED <<platform, upstream, financial_data, company_name, growth_df,
                   session_state, trigger, fetchCalls>>

SessionNext ==
    \/ OpenPage
    \/ ClickAnalyze
    \/ ClickGenerate
    \/ EditSymbol
    \/ EditApiKey
    \/ ScriptTop
    \/ RunFetch
    \/ RunDisplay
    \/ RunNarrative

SessionSpec == SessionInit /\ [][SessionNext]_vars

-----------------------------------------------------------------------------
(* Vocabulary of the properties (Spec) *)

Fin == upstream.quarterly_financials

NumCols == Len(Fin.columns)

Has(row) == row \in Fin.index

\* fetch_stock_data has returned
Returned == pc \in {"call_growth", "done"}

\* ... with a series
Normalized == Returned /\ ~financial_data.none

Records == 1..Len(financial_data.index)

Field(f, i) == financial_data.columns[f][i]

\* the raw cell behind record i: records are oldest-first, columns newest-first
RawCell(row, i) == FromInt(Fin.data[row][Len(financial_data.index) + 1 - i])

\* a statement was delivered, with a column and the Total Revenue row, and labels can be formatted
ValidStatement ==
    /\ ~upstream.raises
    /\ platform = "glibc"
    /\ NumCols >= 1
    /\ Has("Total Revenue")

SharesKnown == "sharesOutstanding" \in DOMAIN upstream.info

GrowthDone == pc = "done" /\ ~financial_data.none

Growth(g, i) == growth_df.columns[g][i]

PctColumns == FieldNames \ {"OPM%"}

-----------------------------------------------------------------------------
(* C1 *)

\* C1: every statement with at least one column and a Total Revenue row (on a
\* platform that formats the quarter labels) is normalized successfully into
\* exactly min(10, columns) records, oldest-first, i.e. record i is built from
\* upstream column min(10, columns) + 1 - i.
C1_ValidStatementNormalizes ==
    (Returned /\ ValidStatement) =>
        /\ ~financial_data.none
        /\ Len(financial_data.index) = Min(10, NumCols)
        /\ \A i \in Records :
              FMul(Field("Sales", i), FromInt(10000000)) = RawCell("Total Revenue", i)

-----------------------------------------------------------------------------
(* C2 *)

AllZero(f) == \A i \in Records : Field(f, i) = Zero

\* C2: every returned series has the five fields in every record, and a valid
\* statement whose optional rows are missing is still normalized, for 1 to 10
\* selected columns, with the field of each missing row 0 in every record.
C2_MissingRowsDefaultToZero ==
    (Returned /\ ValidStatement) =>
        /\ ~financial_data.none
        /\ DOMAIN financial_data.columns = FieldNames
        /\ \A f \in FieldNames : Len(financial_data.columns[f]) = Len(financial_data.index)
        /\ (~Has("Operating Income") /\ ~Has("Total Operating Expenses"))
              => AllZero("Operating Profit")
        /\ ~Has("Net Income") => AllZero("Net Profit")
        /\ (~Has("Basic EPS") /\ ~SharesKnown) => AllZero("EPS")

-----------------------------------------------------------------------------
(* C3 *)

\* C3 as stated: a delivered statement with at least one column and no Total
\* Revenue row always fails with the missing-Sales message and no series.
C3_Original ==
    (Returned /\ ~upstream.raises /\ NumCols >= 1 /\ ~Has("Total Revenue")) =>
        /\ financial_data.none
        /\ company_name = NoSalesMessage

\* C3 amended: a delivered statement with at least one column and at least one
\* row, none of them Total Revenue, fails with the missing-Sales message and
\* no series, whatever the other rows are; a statement with columns and no row
\* at all fails with the no-data message instead.  Sales is never defaulted.
C3_MissingSalesFails ==
    (Returned /\ ~upstream.raises /\ NumCols >= 1 /\ ~Has("Total Revenue")) =>
        /\ financial_data.none
        /\ company_name = IF Fin.index = {} THEN NoDataMessage ELSE NoSalesMessage

C3_Witness ==
    /\ Returned
    /\ ~upstream.raises
    /\ NumCols = QuarterLimit
    /\ Fin.index = RowNames \ {"Total Revenue"}
    /\ financial_data.none
    /\ company_name = NoSalesMessage

-----------------------------------------------------------------------------
(* C4 *)

\* C4: in every record of a returned series OPM% is finite, is 0 when Sales is
\* 0, and otherwise satisfies OPM% * Sales = Operating Profit * 100, i.e.
\* OPM% = Operating Profit / Sales * 100 on the scaled values of that record.
C4_OPM ==
    Normalized =>
        \A i \in Records :
            /\ IsFinite(Field("OPM%", i))
            /\ IF IsZero(Field("Sales", i))
               THEN Field("OPM%", i) = Zero
               ELSE FMul(Field("OPM%", i), Field("Sales", i))
                        = FMul(Field("Operating Profit", i), Hundred)

C4_Witness ==
    /\ Normalized
    /\ \E i \in Records : IsZero(Field("Sales", i)) /\ ~IsZero(Field("Operating Profit", i))
    /\ \E i \in Records : Field("OPM%", i) = <<25, 2>>

-----------------------------------------------------------------------------
(* C5 *)

\* C5: in a returned series, EPS is the raw Basic EPS cell when that row is
\* present; otherwise EPS * shares = Net Profit * 10,000,000 when shares
\* outstanding is known and positive, and EPS is 0 in every record when
\* shares outstanding is unknown, zero or not positive.
C5_EPS ==
    Normalized =>
        IF Has("Basic EPS")
        THEN \A i \in Records : Field("EPS", i) = RawCell("Basic EPS", i)
        ELSE IF SharesKnown /\ upstream.info["sharesOutstanding"] > 0
             THEN \A i \in Records :
                     FMul(Field("EPS", i), FromInt(upstream.info["sharesOutstanding"]))
                         = FMul(Field("Net Profit", i), FromInt(10000000))
             ELSE AllZero("EPS")

-----------------------------------------------------------------------------
(* C6 *)

\* C6: in a returned series Operating Profit * 10,000,000 is the Operating
\* Income cell whenever that row exists, also when Total Operating Expenses
\* exists too; it is Revenue - Operating Expenses only when Operating Income
\* is absent and Total Operating Expenses is present.
C6_OperatingProfitPrecedence ==
    Normalized =>
        \A i \in Records :
            LET raw == FMul(Field("Operating Profit", i), FromInt(10000000))
            IN  /\ Has("Operating Income") => raw = RawCell("Operating Income", i)
                /\ (~Has("Operating Income") /\ Has("Total Operating Expenses")) =>
                      raw = FSub(RawCell("Total Revenue", i),
                                 RawCell("Total Operating Expenses", i))

C6_Witness ==
    /\ Normalized
    /\ Has("Operating Income")
    /\ Has("Total Operating Expenses")
    /\ \E i \in Records :
          RawCell("Operating Income", i)
              # FSub(RawCell("Total Revenue", i), RawCell("Total Operating Expenses", i))

-----------------------------------------------------------------------------
(* C7 *)

\* an entry the claim calls undefined: first record, or percentage growth from 0
Undefined(g, i) ==
    \/ i = 1
    \/ ColumnOf(g) \in PctColumns /\ IsZero(Field(ColumnOf(g), i - 1))

\* C7 as stated: the growth of the first record and every percentage growth
\* from a previous value of 0 are one and the same non-finite sentinel.
C7_Original ==
    GrowthDone =>
        \A g \in GrowthNames : \A i \in Records :
            Undefined(g, i) =>
                /\ ~IsFinite(Growth(g, i))
                /\ Growth(g, i) = Growth("Sales QoQ Growth", 1)

\* C7 amended: calculate_growth_metrics always returns; every field of the
\* first growth record is NaN; a percentage growth from a previous value of 0
\* is infinite (+infinity or -infinity) when the current value is not 0 and
\* NaN when the current value is 0 too: never 0 or another finite number, but
\* not one uniform sentinel.
C7_UndefinedGrowth ==
    GrowthDone =>
        /\ ~growth_df.none
        /\ \A g \in GrowthNames : \A i \in Records :
              /\ i = 1 => Growth(g, i) = NaN
              /\ (i > 1 /\ Undefined(g, i)) =>
                    IF IsZero(Field(ColumnOf(g), i))
                    THEN Growth(g, i) = NaN
                    ELSE Growth(g, i) \in {Inf, NegInf}

C7_Witness ==
    /\ GrowthDone
    /\ \E i \in Records : i > 1 /\ Growth("Sales QoQ Growth", i) = Inf
    /\ \E i \in Records : i > 1 /\ Growth("Net Profit QoQ Growth", i) = NegInf
    /\ \E i \in Records : i > 1 /\ Growth("Operating Profit QoQ Growth", i) = NaN

-----------------------------------------------------------------------------
(* C8 *)

\* C8: the growth series has one record per normalized record, in the same
\* order; for i >= 2, Sales, Operating Profit, Net Profit and EPS growth with
\* a non-zero previous value is (current - previous) / previous * 100 rounded
\* to 2 decimals, and the OPM% change is current - previous rounded to 2
\* decimals.
C8_Growth ==
    GrowthDone =>
        /\ growth_df.index = financial_data.index
        /\ \A g \in GrowthNames :
              /\ Len(growth_df.columns[g]) = Len(financial_data.index)
              /\ \A i \in Records \ {1} :
                    LET cur == Field(ColumnOf(g), i)
                        prev == Field(ColumnOf(g), i - 1)
                    IN  IF ColumnOf(g) = "OPM%"
                        THEN Growth(g, i) = Round2(FSub(cur, prev))
                        ELSE ~IsZero(prev) =>
                                Growth(g, i) =
                                    Round2(FMul(FDiv(FSub(cur, prev), prev), Hundred))

\* Sales 100, 150, 120 and OPM% 10.0, 12.5, 9.0
C8_Witness ==
    /\ GrowthDone
    /\ financial_data.columns["Sales"] = <<<<100, 1>>, <<150, 1>>, <<120, 1>>>>
    /\ growth_df.columns["Sales QoQ Growth"] = <<NaN, <<50, 1>>, <<-20, 1>>>>
    /\ financial_data.columns["OPM%"] = <<<<10, 1>>, <<25, 2>>, <<9, 1>>>>
    /\ growth_df.columns["OPM% Change"] = <<NaN, <<5, 2>>, <<-7, 2>>>>

-----------------------------------------------------------------------------
(* C9 (SessionSpec) *)

\* C9: when the Generate Analysis step of a run does not obtain a response
\* (no API key, or the Gemini client throws), the run ends normally with one
\* of the two inline messages as the analysis text, no exception reaches the
\* page, and the rendered table, growth metrics and chart and
\* st.session_state are what they were before the step.
C9_NarrativeFailureIsInline ==
    [][(pc = "narrative" /\ widgets.generate_btn /\ page'.analysis # ResponseText) =>
          /\ page'.analysis \in {NoKeyMessage, AnalysisErrorMessage}
          /\ ~page'.exception
          /\ pc' = "idle"
          /\ page'.table = page.table
          /\ page'.growth = page.growth
          /\ page'.fig = page.fig
          /\ ~page'.table.none
          /\ session_state' = session_state]_vars

C9_Witness ==
    /\ pc = "idle"
    /\ page.analysis = AnalysisErrorMessage
    /\ ~page.table.none
    /\ ~page.growth.none
    /\ session_state["financial_data"] = page.table

-----------------------------------------------------------------------------
(* C10 (SessionSpec) *)

\* C10: the run started by a Generate Analysis click never calls
\* fetch_stock_data: the one call made for the Analyze click is the only one.
C10_NarrativeNeverRefetches ==
    [][(trigger = "generate" /\ pc # "idle") => fetchCalls' = fetchCalls]_vars

====
